---- MODULE Spec2Model ----
(***************************************************************************)
(* GRE_Practiser (src/app.py): question selection, the test session kept   *)
(* in the Flask session, scoring, and the progress rows of the database.   *)
(*                                                                         *)
(* Python values that can be of several types (JSON request values, the    *)
(* `correct` key of a question) are tagged records [t, v].  Python dicts   *)
(* (the Flask session, a question, the answers of a test) are functions    *)
(* whose DOMAIN is the set of keys present.                                *)
(***************************************************************************)
EXTENDS Integers, Sequences, FiniteSets, TLC

VARIABLES
    questions_json,   \* content of gre_quant_questions.json, flattened in file order
    users,            \* table users: email -> [id, password]
    user_progress,    \* table user_progress: user_id -> [bitmap, history]
    session,          \* the Flask session of every browser: client -> dict
    now,              \* the clock read by datetime.now()
    last,             \* the last request served and its outcome
    finalized         \* history variable: user_id -> every entry submit_test appended

vars == <<questions_json, users, user_progress, session, now, last, finalized>>

(***************************************************************************)
(* Bounds of the model.                                                    *)
(***************************************************************************)
\* questions of the three formats; the source's table has 12, 15 and 27
QuickQuestions == 1
StandardQuestions == 2
FullQuestions == 3
\* the largest questions file Init draws
MaxCatalog == 4
\* datetime.now() is read at most this many times
MaxClock == 2
\* and at most this many times where two accounts are used side by side
MaxUsersClock == 3
\* and at most this many times where saving progress can fail
MaxSaveClock == 3
\* and at most this many times where tests are taken one after the other
MaxHistoryClock == 24
MaxSelectClock == 2
MaxBrowsersClock == 4

(***************************************************************************)
(* Python values.                                                          *)
(***************************************************************************)
PyInt(n) == [t |-> "int", v |-> n]
PyStr(s) == [t |-> "str", v |-> s]
PyList(l) == [t |-> "list", v |-> l]
PyNone == [t |-> "null"]

\* an optional argument or result: None, or a value
None == [some |-> FALSE]
Some(x) == [some |-> TRUE, val |-> x]

\* dict operations
Has(d, k) == k \in DOMAIN d
Put(d, k, x) == [y \in DOMAIN d \cup {k} |-> IF y = k THEN x ELSE d[y]]
Pop(d, k) == [y \in DOMAIN d \ {k} |-> d[y]]
EmptyDict == [y \in {} |-> 0]

Range(s) == {s[i] : i \in DOMAIN s}

RECURSIVE Perms(_)
\* every ordering of a finite set, as sequences
Perms(S) ==
    IF S = {} THEN {<<>>}
    ELSE UNION {{<<x>> \o p : p \in Perms(S \ {x})} : x \in S}

KSubsets(S, k) == {T \in SUBSET S : Cardinality(T) = k}

Min(a, b) == IF a < b THEN a ELSE b

RECURSIVE Pow2(_)
Pow2(n) == IF n = 0 THEN 1 ELSE 2 * Pow2(n - 1)

(***************************************************************************)
(* base64 text: a sequence of the 6-bit values of its characters, 64 for   *)
(* the padding character '='.                                              *)
(***************************************************************************)
B64Pad == 64

RECURSIVE b64encode(_)
b64encode(bytes) ==
    IF Len(bytes) = 0 THEN <<>>
    ELSE IF Len(bytes) = 1 THEN
        <<bytes[1] \div 4, (bytes[1] % 4) * 16, B64Pad, B64Pad>>
    ELSE IF Len(bytes) = 2 THEN
        <<bytes[1] \div 4, (bytes[1] % 4) * 16 + bytes[2] \div 16,
          (bytes[2] % 16) * 4, B64Pad>>
    ELSE
        <<bytes[1] \div 4, (bytes[1] % 4) * 16 + bytes[2] \div 16,
          (bytes[2] % 16) * 4 + bytes[3] \div 64, bytes[3] % 64>>
        \o b64encode(SubSeq(bytes, 4, Len(bytes)))

RECURSIVE b64decode(_)
\* Some(bytes), or None where base64.b64decode raises (incorrect padding)
b64decode(text) ==
    IF Len(text) = 0 THEN Some(<<>>)
    ELSE IF Len(text) < 4 THEN None
    ELSE
        LET a == text[1]
            b == text[2]
            c == text[3]
            d == text[4]
            rest == SubSeq(text, 5, Len(text))
        IN  IF a = B64Pad \/ b = B64Pad THEN None
            ELSE IF c = B64Pad THEN
                IF d = B64Pad /\ Len(rest) = 0
                THEN Some(<<a * 4 + b \div 16>>) ELSE None
            ELSE IF d = B64Pad THEN
                IF Len(rest) = 0
                THEN Some(<<a * 4 + b \div 16, (b % 16) * 16 + c \div 4>>)
                ELSE None
            ELSE
                LET tail == b64decode(rest)
                IN  IF tail.some
                    THEN Some(<<a * 4 + b \div 16, (b % 16) * 16 + c \div 4,
                                (c % 4) * 64 + d>> \o tail.val)
                    ELSE None

(***************************************************************************)
(* The question catalog.                                                   *)
(***************************************************************************)
QC_OPTIONS ==
    <<"Quantity A is greater", "Quantity B is greater",
      "The two quantities are equal",
      "The relationship cannot be determined from the information given">>

IndexOf(seq, x) == CHOOSE i \in DOMAIN seq : seq[i] = x

\* the strings s with s.upper() in "ABCD" (a substring test), and "ABCD".index(s.upper())
LetterIndex ==
    [s \in {"", "A", "B", "C", "D", "a", "b", "c", "d", "AB", "BC", "CD",
            "ABC", "BCD", "ABCD"} |->
        IF s \in {"", "A", "a", "AB", "ABC", "ABCD"} THEN 0
        ELSE IF s \in {"B", "b", "BC", "BCD"} THEN 1
        ELSE IF s \in {"C", "c", "CD"} THEN 2
        ELSE 3]

normalize_correct_answer(question) ==
    LET correct == IF Has(question, "correct") THEN question["correct"] ELSE PyNone
    IN  IF Has(question, "type") /\ question["type"] = "qc" THEN
            IF correct.t = "int" THEN
                IF 0 <= correct.v /\ correct.v < 4
                THEN Put(question, "correct", correct)
                ELSE Put(question, "correct", PyInt(0))
            ELSE IF correct.t = "str" THEN
                IF correct.v \in DOMAIN LetterIndex
                THEN Put(question, "correct", PyInt(LetterIndex[correct.v]))
                ELSE IF correct.v \in Range(QC_OPTIONS)
                THEN Put(question, "correct", PyInt(IndexOf(QC_OPTIONS, correct.v) - 1))
                ELSE Put(question, "correct", PyInt(0))
            ELSE question
        ELSE question

\* the list of questions, ids counting from 1 in file order
load_questions ==
    [i \in 1..Len(questions_json) |->
        Put(normalize_correct_answer(questions_json[i]), "id", i)]

question_lookup == [i \in 1..Len(load_questions) |-> load_questions[i]]

\* weights in percent
GRE_DISTRIBUTION ==
    [types |-> [qc |-> 40, mc |-> 30, ma |-> 15, numeric |-> 15]]

\* the order in which a loop walks the keys of GRE_DISTRIBUTION['types']
TypeOrder == <<"qc", "mc", "ma", "numeric">>

(***************************************************************************)
(* The progress rows of the database.  test_history holds JSON text:       *)
(* [json |-> v] stands for the text json.dumps gives for v.                *)
(***************************************************************************)
json_dumps(x) == [json |-> x]
json_loads(text) == text.json

load_user_progress(progress, user_id) ==
    IF user_id \in DOMAIN progress THEN
        [bitmap |-> progress[user_id].bitmap,
         history |-> json_loads(progress[user_id].history)]
    ELSE [bitmap |-> <<>>, history |-> <<>>]

\* an UPDATE without its WHERE clause: every row takes the new values
save_user_progress_all_rows(progress, user_id, bitmap, history) ==
    IF user_id \in DOMAIN progress THEN
        LET existing == progress[user_id]
            current_bitmap == IF bitmap.some THEN bitmap.val ELSE existing.bitmap
            current_history ==
                IF history.some THEN json_dumps(history.val) ELSE existing.history
        IN  [u \in DOMAIN progress |->
                [bitmap |-> current_bitmap, history |-> current_history]]
    ELSE
        Put(progress, user_id,
            [bitmap |-> IF bitmap.some THEN bitmap.val ELSE <<>>,
             history |-> IF history.some THEN json_dumps(history.val)
                         ELSE json_dumps(<<>>)])

\* a save that writes the defaults for the column it was not given
save_user_progress_defaults(progress, user_id, bitmap, history) ==
    Put(progress, user_id,
        [bitmap |-> IF bitmap.some THEN bitmap.val ELSE <<>>,
         history |-> IF history.some THEN json_dumps(history.val)
                     ELSE json_dumps(<<>>)])

\* bitmap and history are optional: None keeps what the row has
save_user_progress(progress, user_id, bitmap, history) ==
    IF user_id \in DOMAIN progress THEN
        LET existing == progress[user_id]
            current_bitmap == IF bitmap.some THEN bitmap.val ELSE existing.bitmap
            current_history ==
                IF history.some THEN json_dumps(history.val) ELSE existing.history
        IN  Put(progress, user_id,
                [bitmap |-> current_bitmap, history |-> current_history])
    ELSE
        Put(progress, user_id,
            [bitmap |-> IF bitmap.some THEN bitmap.val ELSE <<>>,
             history |-> IF history.some THEN json_dumps(history.val)
                         ELSE json_dumps(<<>>)])

(***************************************************************************)
(* The attempted bitmap.  A helper works on w = [session, user_progress]:  *)
(* the session of the request it serves, and the table.                    *)
(***************************************************************************)
get_attempted_questions_bitmap(w) ==
    IF ~Has(w.session, "user_id") THEN
        IF ~Has(w.session, "attempted_questions_bitmap") THEN <<>>
        ELSE LET dec == b64decode(w.session["attempted_questions_bitmap"])
             IN  IF dec.some THEN dec.val ELSE <<>>
    ELSE
        LET bitmap_str == load_user_progress(w.user_progress, w.session["user_id"]).bitmap
        IN  IF Len(bitmap_str) > 0 THEN
                LET dec == b64decode(bitmap_str)
                IN  IF dec.some THEN dec.val ELSE <<>>
            ELSE <<>>

set_attempted_questions_bitmap(w, bitmap) ==
    LET bitmap_str == b64encode(bitmap)
    IN  IF Has(w.session, "user_id") THEN
            [w EXCEPT !.user_progress =
                save_user_progress(w.user_progress, w.session["user_id"],
                                   Some(bitmap_str), None)]
        ELSE
            [w EXCEPT !.session = Put(w.session, "attempted_questions_bitmap", bitmap_str)]

\* "=" for "|=": the byte keeps only the new bit
SetBitOverwrite(byte, bit_idx) == Pow2(bit_idx)

\* byte | (1 << bit_idx)
SetBit(byte, bit_idx) ==
    IF (byte \div Pow2(bit_idx)) % 2 = 1 THEN byte ELSE byte + Pow2(bit_idx)

mark_question_attempted_bitmap(w, question_id) ==
    LET idx == question_id - 1
        bitmap == get_attempted_questions_bitmap(w)
        byte_idx == idx \div 8
        bit_idx == idx % 8
        padded == [i \in 1..(IF Len(bitmap) <= byte_idx THEN byte_idx + 1 ELSE Len(bitmap)) |->
                      IF i <= Len(bitmap) THEN bitmap[i] ELSE 0]
        marked == [padded EXCEPT ![byte_idx + 1] = SetBit(padded[byte_idx + 1], bit_idx)]
    IN  set_attempted_questions_bitmap(w, marked)

is_question_attempted_bitmap(w, question_id) ==
    LET idx == question_id - 1
        bitmap == get_attempted_questions_bitmap(w)
        byte_idx == idx \div 8
        bit_idx == idx % 8
    IN  IF byte_idx >= Len(bitmap) THEN FALSE
        ELSE (bitmap[byte_idx + 1] \div Pow2(bit_idx)) % 2 # 0

\* the ids of the attempted questions, in catalog order
get_attempted_questions(w) ==
    LET all_ids == [i \in 1..Len(load_questions) |-> load_questions[i]["id"]]
    IN  SelectSeq(all_ids, LAMBDA id : is_question_attempted_bitmap(w, id))

mark_question_attempted(w, question_id) == mark_question_attempted_bitmap(w, question_id)

(***************************************************************************)
(* Selection.                                                              *)
(***************************************************************************)
\* int(v * num_questions) per type, the shortfall to num_questions added to mc
target_types_shortfall_to_qc(num_questions) ==
    LET floor == [k \in DOMAIN GRE_DISTRIBUTION.types |->
                     (GRE_DISTRIBUTION.types[k] * num_questions) \div 100]
        total_types == floor["qc"] + floor["mc"] + floor["ma"] + floor["numeric"]
    IN  IF total_types < num_questions
        THEN [floor EXCEPT !["qc"] = @ + (num_questions - total_types)]
        ELSE floor

target_types(num_questions) ==
    LET floor == [k \in DOMAIN GRE_DISTRIBUTION.types |->
                     (GRE_DISTRIBUTION.types[k] * num_questions) \div 100]
        total_types == floor["qc"] + floor["mc"] + floor["ma"] + floor["numeric"]
    IN  IF total_types < num_questions
        THEN [floor EXCEPT !["mc"] = @ + (num_questions - total_types)]
        ELSE floor

\* the draws of one type: random.sample of `count` of them, or all of them
TypeDraws(available, selected, q_type, count) ==
    LET type_questions == {q \in Range(available) :
                              q["type"] = q_type /\ q["id"] \notin selected}
        ids == {q["id"] : q \in type_questions}
    IN  IF Cardinality(ids) >= count THEN KSubsets(ids, count) ELSE {ids}

RECURSIVE DrawTypes(_, _, _, _)
\* the sets of ids the loop over the types can have selected, from type i on
DrawTypes(available, targets, selected, i) ==
    IF i > Len(TypeOrder) THEN {selected}
    ELSE UNION {DrawTypes(available, targets, selected \cup d, i + 1) :
                   d \in TypeDraws(available, selected, TypeOrder[i],
                                   targets[TypeOrder[i]])}

\* a selection that is never filled up
FillRemainingNone(available, selected, num_questions) == {selected}

\* "Fill remaining if needed"
FillRemaining(available, selected, num_questions) ==
    IF Cardinality(selected) < num_questions THEN
        LET remaining == {q["id"] : q \in Range(available)} \ selected
            needed == num_questions - Cardinality(selected)
        IN  {selected \cup extra :
                extra \in KSubsets(remaining, Min(needed, Cardinality(remaining)))}
    ELSE {selected}

\* random.shuffle(selected); selected[:num_questions]
Shuffled(selected, num_questions) ==
    {SubSeq(p, 1, Min(num_questions, Len(p))) : p \in Perms(selected)}

\* a selection that always draws from the whole catalog
AvailableAlways(all_questions, unattempted, num_questions) == all_questions

\* a selection that never falls back to the whole catalog
AvailableUnattempted(all_questions, unattempted, num_questions) == unattempted

\* "Reset attempted questions if not enough available"
AvailableQuestions(all_questions, unattempted, num_questions) ==
    IF Len(unattempted) < num_questions THEN all_questions ELSE unattempted

\* every result select_questions can give: the ids in order, the world it
\* leaves (the bitmap is reset when too few questions are available), and
\* whether it took that branch
select_questions(w, num_questions) ==
    LET all_questions == load_questions
        attempted == get_attempted_questions(w)
        unattempted == SelectSeq(all_questions,
                                 LAMBDA q : q["id"] \notin Range(attempted))
        exhausted == Len(unattempted) < num_questions
        w1 == IF exhausted THEN set_attempted_questions_bitmap(w, <<>>) ELSE w
        available_questions == AvailableQuestions(all_questions, unattempted, num_questions)
        drawn == DrawTypes(available_questions, target_types(num_questions), {}, 1)
        filled == UNION {FillRemaining(available_questions, sel, num_questions) :
                            sel \in drawn}
    IN  {[ids |-> ids, w |-> w1, exhausted |-> exhausted] :
            ids \in UNION {Shuffled(sel, num_questions) : sel \in filled}}

test_params ==
    [quick |-> [questions |-> QuickQuestions, time |-> 18],
     standard |-> [questions |-> StandardQuestions, time |-> 23],
     full |-> [questions |-> FullQuestions, time |-> 47]]

(***************************************************************************)
(* Scoring.  A float is [h, e]: h hundredths plus e units of 2^-59/100,    *)
(* which is exact for the doubles of the decimal texts below.              *)
(***************************************************************************)
\* float(text) for the texts the model uses; a text outside it does not parse
FloatTable ==
    [s \in {"10.5", "10.50", "10.51", "10.49", "10.6", "3", "5"} |->
        IF s \in {"10.5", "10.50"} THEN [h |-> 1050, e |-> 0]
        ELSE IF s = "10.51" THEN [h |-> 1051, e |-> -12288]
        ELSE IF s = "10.49" THEN [h |-> 1049, e |-> 12288]
        ELSE IF s = "10.6" THEN [h |-> 1060, e |-> -20480]
        ELSE IF s = "3" THEN [h |-> 300, e |-> 0]
        ELSE [h |-> 500, e |-> 0]]

\* the double 0.01 is 1 hundredth plus 12 units
Tolerance == [h |-> 1, e |-> 12]

\* abs(a - b) < 0.01 on doubles
AbsDiffLess(a, b) ==
    IF a.h = b.h THEN TRUE
    ELSE IF a.h - b.h = Tolerance.h THEN a.e - b.e < Tolerance.e
    ELSE IF b.h - a.h = Tolerance.h THEN b.e - a.e < Tolerance.e
    ELSE FALSE

RECURSIVE ListRepr(_)
ListRepr(l) ==
    IF Len(l) = 0 THEN ""
    ELSE (IF l[1].t = "str" THEN "'" \o l[1].v \o "'"
          ELSE IF l[1].t = "int" THEN ToString(l[1].v) ELSE "None")
         \o (IF Len(l) > 1 THEN ", " ELSE "") \o ListRepr(Tail(l))

\* str(x); the model has no text with blanks around it for strip() to cut
str(x) ==
    IF x.t = "str" THEN x.v
    ELSE IF x.t = "int" THEN ToString(x.v)
    ELSE IF x.t = "list" THEN "[" \o ListRepr(x.v) \o "]"
    ELSE "None"

\* float(x): Some(float), or None where it raises ValueError or TypeError
float(x) ==
    IF x.t = "str" THEN
        IF x.v \in DOMAIN FloatTable THEN Some(FloatTable[x.v]) ELSE None
    ELSE IF x.t = "int" THEN Some([h |-> 100 * x.v, e |-> 0])
    ELSE None

\* int(x): Some(n), or None where it raises ValueError or TypeError
int(x) ==
    IF x.t = "int" THEN Some(x.v)
    ELSE IF x.t = "str" THEN
        IF \E n \in -1..(MaxCatalog + 2) : ToString(n) = x.v
        THEN Some(CHOOSE n \in -1..(MaxCatalog + 2) : ToString(n) = x.v)
        ELSE None
    ELSE None

\* [question['options'][i] for i in correct_indices if i < len(options)]:
\* Some(texts), or None where it raises (an index that is no int, or below -len)
CorrectTexts(question, correct) ==
    LET correct_indices == IF correct.t = "list" THEN correct.v ELSE <<correct>>
    IN  IF Len(correct_indices) = 0 THEN Some(<<>>)
        ELSE IF ~Has(question, "options") THEN None
        ELSE LET options == question["options"]
                 ok(i) == i.t = "int" /\ i.v >= -Len(options)
                 at(i) == IF i.v >= 0 THEN options[i.v + 1]
                          ELSE options[Len(options) + i.v + 1]
                 kept == SelectSeq(correct_indices,
                                   LAMBDA i : ~ok(i) \/ i.v < Len(options))
             IN  IF \E k \in DOMAIN correct_indices : ~ok(correct_indices[k])
                 THEN None
                 ELSE Some([k \in 1..Len(kept) |-> at(kept[k])])

\* user_answer == correct_texts: the lists compared entry by entry
ListsEqual(user_answer, correct_texts) ==
    /\ Len(user_answer) = Len(correct_texts)
    /\ \A k \in DOMAIN user_answer :
           user_answer[k].t = "str" /\ user_answer[k].v = correct_texts[k]

\* set(user_answer) == set(correct_texts), the texts being strings
SetsEqual(user_answer, correct_texts) ==
    /\ \A k \in DOMAIN user_answer :
           /\ user_answer[k].t = "str"
           /\ user_answer[k].v \in Range(correct_texts)
    /\ \A x \in Range(correct_texts) :
           \E k \in DOMAIN user_answer :
               /\ user_answer[k].t = "str"
               /\ user_answer[k].v = x

score_answer(question, user_answer) ==
    IF user_answer.t = "null" \/ (user_answer.t = "str" /\ user_answer.v = "")
    THEN FALSE
    ELSE
        LET q_type == question["type"]
            correct == IF Has(question, "correct") THEN question["correct"] ELSE PyNone
        IN  IF q_type = "mc" THEN
                IF correct.t = "int" /\ Has(question, "options")
                   /\ 0 <= correct.v /\ correct.v < Len(question["options"])
                THEN str(user_answer) = question["options"][correct.v + 1]
                ELSE FALSE
            ELSE IF q_type = "ma" THEN
                IF user_answer.t # "list" THEN FALSE
                ELSE LET texts == CorrectTexts(question, correct)
                     IN  IF ~texts.some THEN FALSE
                         ELSE SetsEqual(user_answer.v, texts.val)
            ELSE IF q_type = "qc" THEN
                LET correct_idx == IF correct.t = "int" THEN correct.v ELSE 0
                IN  /\ user_answer.t = "str"
                    /\ user_answer.v \in Range(QC_OPTIONS)
                    /\ IndexOf(QC_OPTIONS, user_answer.v) - 1 = correct_idx
            ELSE IF q_type = "numeric" THEN
                LET user_num == float(user_answer)
                    correct_num == float(correct)
                IN  /\ user_num.some
                    /\ correct_num.some
                    /\ AbsDiffLess(user_num.val, correct_num.val)
            ELSE FALSE

\* Some(text or list), or None where it raises
format_correct_answer(question) ==
    LET q_type == question["type"]
        correct == IF Has(question, "correct") THEN question["correct"] ELSE PyNone
    IN  IF q_type = "mc" THEN
            IF correct.t = "int" /\ 0 <= correct.v THEN
                IF ~Has(question, "options") THEN None
                ELSE IF correct.v < Len(question["options"])
                THEN Some(PyStr(question["options"][correct.v + 1]))
                ELSE Some(PyStr("Error in answer"))
            ELSE Some(PyStr("Error in answer"))
        ELSE IF q_type = "ma" THEN
            LET texts == CorrectTexts(question, correct)
            IN  IF texts.some
                THEN Some(PyList([k \in DOMAIN texts.val |-> PyStr(texts.val[k])]))
                ELSE None
        ELSE IF q_type = "qc" THEN
            LET idx == IF correct.t = "int" THEN correct.v ELSE 0
            IN  IF idx >= Len(QC_OPTIONS) THEN Some(PyStr("Error"))
                ELSE IF idx >= 0 THEN Some(PyStr(QC_OPTIONS[idx + 1]))
                ELSE IF idx >= -Len(QC_OPTIONS)
                THEN Some(PyStr(QC_OPTIONS[Len(QC_OPTIONS) + idx + 1]))
                ELSE None
        ELSE Some(PyStr(str(correct)))

format_user_answer(question, user_answer) ==
    IF user_answer.t = "null" THEN PyNone
    ELSE IF user_answer.t = "list" THEN user_answer
    ELSE PyStr(str(user_answer))

\* "else 100": a test without questions counts as all right
AccuracyEmptyIsFull(correct, total) ==
    IF total > 0 THEN
        LET whole == (correct * 1000) \div total
            rest2 == 2 * ((correct * 1000) % total)
        IN  IF rest2 > total \/ (rest2 = total /\ whole % 2 = 1)
            THEN whole + 1 ELSE whole
    ELSE 1000

\* round(correct / total * 100 if total > 0 else 0, 1), in tenths of a percent
Accuracy(correct, total) ==
    IF total > 0 THEN
        LET whole == (correct * 1000) \div total
            rest2 == 2 * ((correct * 1000) % total)
        IN  IF rest2 > total \/ (rest2 = total /\ whole % 2 = 1)
            THEN whole + 1 ELSE whole
    ELSE 0

(***************************************************************************)
(* The inputs of the requests.                                             *)
(***************************************************************************)
Clients == {"c1", "c2"}
Emails == {"a@x.org", "b@x.org"}

\* gre_quant_questions.json: Init takes a prefix of it
AllQuestions ==
    <<[type |-> "mc", options |-> <<"Option A", "Option B", "Option C">>,
       correct |-> PyInt(0)],
      [type |-> "ma", options |-> <<"Option A", "Option B", "Option C">>,
       correct |-> PyList(<<PyInt(0), PyInt(2)>>)],
      [type |-> "qc", correct |-> PyStr("B")],
      [type |-> "numeric", correct |-> PyStr("10.5")],
      [type |-> "mc", options |-> <<"3", "5">>, correct |-> PyInt(1)],
      [type |-> "mc", options |-> <<"Option B", "Option A">>, correct |-> PyInt(1)],
      [type |-> "qc", correct |-> PyInt(2)],
      [type |-> "mc", options |-> <<"5", "3">>, correct |-> PyInt(0)],
      [type |-> "numeric", correct |-> PyStr("10.50")],
      [type |-> "ma", options |-> <<"Option A", "Option B">>,
       correct |-> PyList(<<PyInt(1)>>)]>>

FormatInputs == {"quick", "standard", "full", "invalid"}

\* question_id of a submit_answer request: the first question as a number
\* and as text, an id past the catalog, and values int() refuses
QuestionIdInputs ==
    {PyInt(1), PyStr("1"), PyInt(Len(questions_json) + 1), PyStr("abc"), PyNone}

\* answer of a submit_answer request
AnswerInputs == {PyStr("Option A"), PyStr("Quantity B is greater")}

PasswordInputs == {"secret1", "short"}

\* len(password) >= 6
LongEnough(password) == password # "short"

(***************************************************************************)
(* The requests.  Every handler is one step.                               *)
(***************************************************************************)
LoggedIn(c) == Has(session[c], "user_id")

\* @login_required without a user: a redirect to the login page
LoginRedirect(c, op) ==
    /\ last' = [op |-> op, client |-> c, outcome |-> "login"]
    /\ UNCHANGED <<questions_json, users, user_progress, session, now, finalized>>

register(c, email, password, confirm_password) ==
    /\ UNCHANGED <<questions_json, user_progress, now, finalized>>
    /\ IF email \notin Emails \/ ~LongEnough(password) \/ password # confirm_password THEN
           /\ last' = [op |-> "register", client |-> c, outcome |-> "invalid"]
           /\ UNCHANGED <<users, session>>
       ELSE IF Has(users, email) THEN
           /\ last' = [op |-> "register", client |-> c, outcome |-> "exists"]
           /\ UNCHANGED <<users, session>>
       ELSE
           LET user_id == Cardinality(DOMAIN users) + 1
           IN  /\ users' = Put(users, email, [id |-> user_id, password |-> password])
               /\ session' = [session EXCEPT ![c] =
                      Put(Put(@, "user_id", user_id), "user_email", email)]
               /\ last' = [op |-> "register", client |-> c, outcome |-> "ok"]

login(c, email, password) ==
    /\ UNCHANGED <<questions_json, users, user_progress, now, finalized>>
    /\ IF Has(users, email) /\ users[email].password = password THEN
           LET history == load_user_progress(user_progress, users[email].id).history
           IN  /\ session' = [session EXCEPT ![c] =
                      Put(Put(Put(@, "user_id", users[email].id), "user_email", email),
                          "test_history", history)]
               /\ last' = [op |-> "login", client |-> c, outcome |-> "ok"]
       ELSE
           /\ last' = [op |-> "login", client |-> c, outcome |-> "invalid"]
           /\ UNCHANGED session

logout(c) ==
    /\ session' = [session EXCEPT ![c] = EmptyDict]
    /\ last' = [op |-> "logout", client |-> c, outcome |-> "ok"]
    /\ UNCHANGED <<questions_json, users, user_progress, now, finalized>>

\* where start_test redirects to: the login page from @login_required, the
\* index for an unknown format, the test page otherwise
start_test_redirect(outcome) ==
    IF outcome = "login" THEN "login"
    ELSE IF outcome = "invalid" THEN "index"
    ELSE "test"

\* the messages start_test flashes: only @login_required has one
start_test_flashes(outcome) ==
    IF outcome = "login" THEN <<"Please login to access this page">> ELSE <<>>

\* a start_test that marks nothing
MarkNone(w, question_ids) == w

RECURSIVE MarkAll(_, _)
\* for q_id in question_ids: mark_question_attempted(q_id)
MarkAll(w, question_ids) ==
    IF Len(question_ids) = 0 THEN w
    ELSE MarkAll(mark_question_attempted(w, Head(question_ids)), Tail(question_ids))

\* the pops and the flag start_test begins with
ClearTestData(s) ==
    Put(Pop(Pop(s, "current_test"), "current_question_idx"), "clear_gre_timer", TRUE)

\* a start_time taken once, when the module is loaded
StoreTestStaleTime(s, test_format, question_ids, time_limit, start_time) ==
    Put(Put(s, "current_test",
            [format |-> test_format, question_ids |-> question_ids,
             time_limit |-> time_limit, start_time |-> 0, answers |-> EmptyDict]),
        "current_question_idx", 0)

\* session['current_test'] = {...}; session['current_question_idx'] = 0
StoreTest(s, test_format, question_ids, time_limit, start_time) ==
    Put(Put(s, "current_test",
            [format |-> test_format, question_ids |-> question_ids,
             time_limit |-> time_limit, start_time |-> start_time,
             answers |-> EmptyDict]),
        "current_question_idx", 0)

start_test(c, test_format) ==
    IF ~LoggedIn(c) THEN LoginRedirect(c, "start_test")
    ELSE
        LET cleared == ClearTestData(session[c])
        IN  /\ UNCHANGED <<questions_json, users, finalized>>
            /\ IF test_format \notin DOMAIN test_params THEN
                   /\ session' = [session EXCEPT ![c] = cleared]
                   /\ last' = [op |-> "start_test", client |-> c, outcome |-> "invalid"]
                   /\ UNCHANGED <<user_progress, now>>
               ELSE
                   LET params == test_params[test_format]
                   IN  /\ now' = now + 1
                       /\ \E sel \in select_questions(
                                 [session |-> cleared, user_progress |-> user_progress],
                                 params.questions) :
                             LET question_ids == sel.ids
                                 w == MarkAll(sel.w, question_ids)
                             IN  /\ user_progress' = w.user_progress
                                 /\ session' = [session EXCEPT ![c] =
                                        StoreTest(w.session, test_format, question_ids,
                                                  params.time, now')]
                                 /\ last' = [op |-> "start_test", client |-> c,
                                             outcome |-> IF sel.exhausted THEN "exhausted"
                                                         ELSE "ok"]

\* an early return that leaves an empty test behind
NoActiveTestCreates(c, op) ==
    /\ last' = [op |-> op, client |-> c, outcome |-> "no_test"]
    /\ session' = [session EXCEPT ![c] =
           Put(@, "current_test", [format |-> "quick", question_ids |-> <<>>,
                                   time_limit |-> 18, start_time |-> now,
                                   answers |-> EmptyDict])]
    /\ UNCHANGED <<user_progress, now, finalized>>

\* "if 'current_test' not in session": the early return of submit_answer
\* (an error 400) and of submit_test (a redirect)
NoActiveTest(c, op) ==
    /\ last' = [op |-> op, client |-> c, outcome |-> "no_test"]
    /\ UNCHANGED <<session, user_progress, now, finalized>>

\* an answered question is taken off the list of the test
StoreAnswerRemovesQuestion(current_test, key, answer) ==
    [current_test EXCEPT
        !.answers = Put(@, key, answer),
        !.question_ids = SelectSeq(@, LAMBDA id : ToString(id) # key)]

\* setdefault: the first answer of a question stays
StoreAnswerOnce(current_test, key, answer) ==
    [current_test EXCEPT
        !.answers = IF Has(@, key) THEN @ ELSE Put(@, key, answer)]

\* session['current_test']['answers'][question_id] = answer
StoreAnswer(current_test, key, answer) ==
    [current_test EXCEPT !.answers = Put(@, key, answer)]

submit_answer(c, question_id, answer) ==
    IF ~LoggedIn(c) THEN LoginRedirect(c, "submit_answer")
    ELSE
        /\ UNCHANGED <<questions_json, users>>
        /\ IF ~Has(session[c], "current_test") THEN NoActiveTest(c, "submit_answer")
           ELSE IF ~int(question_id).some THEN
               /\ last' = [op |-> "submit_answer", client |-> c, outcome |-> "invalid"]
               /\ UNCHANGED <<session, user_progress, now, finalized>>
           ELSE
               LET key == ToString(int(question_id).val)
                   current_test == session[c]["current_test"]
               IN  /\ session' = [session EXCEPT ![c] =
                          Put(@, "current_test", StoreAnswer(current_test, key, answer))]
                   /\ last' = [op |-> "submit_answer", client |-> c, outcome |-> "ok"]
                   /\ UNCHANGED <<user_progress, now, finalized>>

\* q of a GET /test request: request.args.get('q', type=int)
ViewInputs == {None, Some(-1), Some(0), Some(1), Some(5)}

\* the test page.  question_ids[q_idx] raises IndexError for a test without
\* questions, after current_question_idx was set: Flask answers 500 and
\* saves the session, or the exception propagates and nothing is saved
test(c, q) ==
    IF ~LoggedIn(c) THEN LoginRedirect(c, "test")
    ELSE
        /\ UNCHANGED <<questions_json, users>>
        /\ IF ~Has(session[c], "current_test") THEN NoActiveTest(c, "test")
           ELSE
               LET test_data == session[c]["current_test"]
                   total_questions == Len(test_data.question_ids)
                   given == IF q.some THEN q.val
                            ELSE IF Has(session[c], "current_question_idx")
                            THEN session[c]["current_question_idx"] ELSE 0
                   top == IF given < total_questions - 1 THEN given
                          ELSE total_questions - 1
                   q_idx == IF top > 0 THEN top ELSE 0
                   viewed == [session EXCEPT ![c] = Put(@, "current_question_idx", q_idx)]
               IN  /\ UNCHANGED <<user_progress, now, finalized>>
                   /\ IF q_idx >= total_questions THEN
                          /\ last' = [op |-> "test", client |-> c, outcome |-> "error"]
                          /\ session' \in {viewed, session}
                      ELSE
                          /\ last' = [op |-> "test", client |-> c, outcome |-> "ok"]
                          /\ session' = viewed

\* user_answers.get(str(q_id))
GetAnswer(user_answers, q_id) ==
    IF Has(user_answers, ToString(q_id)) THEN user_answers[ToString(q_id)] ELSE PyNone

\* the loop of submit_test over question_ids: one detail per question
results_detail(question_ids, user_answers) ==
    [k \in 1..Len(question_ids) |->
        LET question == question_lookup[question_ids[k]]
            user_answer == GetAnswer(user_answers, question_ids[k])
        IN  [question |-> question,
             user_answer |-> format_user_answer(question, user_answer),
             correct |-> score_answer(question, user_answer),
             correct_answer |-> format_correct_answer(question).val]]

\* a count that does not look at is_correct
CountCorrectAll(details) == Len(details)

\* "if is_correct: correct += 1"
CountCorrect(details) == Cardinality({k \in DOMAIN details : details[k].correct})

\* the loop raises: a question id that is not in the catalog, or a
\* question whose answer key cannot be formatted
ScoringRaises(question_ids) ==
    \E k \in 1..Len(question_ids) :
        \/ question_ids[k] \notin DOMAIN question_lookup
        \/ ~format_correct_answer(question_lookup[question_ids[k]]).some

\* [:10] for [-10:]
KeepFirst(history) ==
    IF Len(history) > 10 THEN SubSeq(history, 1, 10) ELSE history

\* session['test_history'][-10:]
KeepLast(history) ==
    IF Len(history) > 10 THEN SubSeq(history, Len(history) - 10 + 1, Len(history))
    ELSE history

\* a finalize that forgets to clear the test
FinalizeSessionKeepsTest(s, test_history, last_results) ==
    Put(Put(s, "test_history", test_history), "last_results", last_results)

\* what submit_test leaves in the session: the history, the results for
\* display, and no current test
FinalizeSession(s, test_history, last_results) ==
    Pop(Put(Put(s, "test_history", test_history), "last_results", last_results),
        "current_test")

submit_test(c) ==
    IF ~LoggedIn(c) THEN LoginRedirect(c, "submit_test")
    ELSE
        /\ UNCHANGED <<questions_json, users>>
        /\ IF ~Has(session[c], "current_test") THEN NoActiveTest(c, "submit_test")
           ELSE
               LET test_data == session[c]["current_test"]
                   question_ids == test_data.question_ids
                   user_answers == test_data.answers
               IN  IF ScoringRaises(question_ids) THEN
                       /\ last' = [op |-> "submit_test", client |-> c, outcome |-> "error"]
                       /\ UNCHANGED <<session, user_progress, now, finalized>>
                   ELSE
                       LET details == results_detail(question_ids, user_answers)
                           correct == CountCorrect(details)
                           total == Len(question_ids)
                           accuracy == Accuracy(correct, total)
                           old_history == IF Has(session[c], "test_history")
                                          THEN session[c]["test_history"] ELSE <<>>
                           entry == [date |-> now', format |-> test_data.format,
                                     accuracy |-> accuracy, correct |-> correct,
                                     total |-> total]
                           test_history == KeepLast(Append(old_history, entry))
                           last_results ==
                               [accuracy |-> accuracy, correct |-> correct,
                                total |-> total, details |-> details]
                           user_id == session[c]["user_id"]
                       IN  /\ now' = now + 1
                           /\ user_progress' =
                                  save_user_progress(user_progress, user_id,
                                                     None, Some(test_history))
                           /\ session' = [session EXCEPT ![c] =
                                  FinalizeSession(@, test_history, last_results)]
                           /\ finalized' = Put(finalized, user_id,
                                  Append(IF Has(finalized, user_id)
                                         THEN finalized[user_id] ELSE <<>>, entry))
                           /\ last' = [op |-> "submit_test", client |-> c, outcome |-> "ok"]

\* submit_test when sqlite3 raises inside save_user_progress: the handler
\* is left at that call, after it put the new entry into
\* session['test_history'] and before it stores last_results and pops
\* current_test.  Nothing is committed.  Flask answers 500 and saves the
\* session as the handler left it, or, where exceptions propagate (debug,
\* testing), sends no response of its own and the session is not saved.
submit_test_save_fails(c) ==
    /\ LoggedIn(c)
    /\ Has(session[c], "current_test")
    /\ ~ScoringRaises(session[c]["current_test"].question_ids)
    /\ LET test_data == session[c]["current_test"]
           details == results_detail(test_data.question_ids, test_data.answers)
           correct == CountCorrect(details)
           total == Len(test_data.question_ids)
           old_history == IF Has(session[c], "test_history")
                          THEN session[c]["test_history"] ELSE <<>>
           entry == [date |-> now', format |-> test_data.format,
                     accuracy |-> Accuracy(correct, total), correct |-> correct,
                     total |-> total]
           test_history == KeepLast(Append(old_history, entry))
       IN  /\ now' = now + 1
           /\ \/ session' = [session EXCEPT ![c] = Put(@, "test_history", test_history)]
              \/ session' = session
    /\ last' = [op |-> "submit_test", client |-> c, outcome |-> "save_error"]
    /\ UNCHANGED <<questions_json, users, user_progress, finalized>>

\* a reset that also drops the test in progress
reset_history_clears_test(c) ==
    IF ~LoggedIn(c) THEN LoginRedirect(c, "reset_history")
    ELSE
        LET w == set_attempted_questions_bitmap(
                     [session |-> session[c], user_progress |-> user_progress], <<>>)
        IN  /\ session' = [session EXCEPT ![c] = Pop(w.session, "current_test")]
            /\ user_progress' = w.user_progress
            /\ last' = [op |-> "reset_history", client |-> c, outcome |-> "ok"]
            /\ UNCHANGED <<questions_json, users, now, finalized>>

reset_history(c) ==
    IF ~LoggedIn(c) THEN LoginRedirect(c, "reset_history")
    ELSE
        LET w == set_attempted_questions_bitmap(
                     [session |-> session[c], user_progress |-> user_progress], <<>>)
        IN  /\ session' = [session EXCEPT ![c] = w.session]
            /\ user_progress' = w.user_progress
            /\ last' = [op |-> "reset_history", client |-> c, outcome |-> "ok"]
            /\ UNCHANGED <<questions_json, users, now, finalized>>

\* what the profile page of client c is rendered from; it changes nothing
profile(c) ==
    LET history == load_user_progress(user_progress, session[c]["user_id"]).history
        attempted == get_attempted_questions(
                         [session |-> session[c], user_progress |-> user_progress])
    IN  [email |-> session[c]["user_email"],
         total_tests |-> Len(history),
         questions_attempted |-> Len(attempted),
         total_available |-> Len(load_questions),
         test_history |-> KeepLast(history)]

(***************************************************************************)
(* Spec: one browser and one account, every request in any order.          *)
(***************************************************************************)
Init ==
    /\ questions_json \in {SubSeq(AllQuestions, 1, n) : n \in 0..MaxCatalog}
    /\ users = EmptyDict
    /\ user_progress = EmptyDict
    /\ session = [c \in Clients |-> EmptyDict]
    /\ now = 0
    /\ last = [op |-> "init", client |-> "", outcome |-> ""]
    /\ finalized = EmptyDict

Next ==
    \/ \E p \in PasswordInputs, q \in PasswordInputs :
           register("c1", "a@x.org", p, q)
    \/ \E p \in PasswordInputs : login("c1", "a@x.org", p)
    \/ logout("c1")
    \/ \E f \in FormatInputs : start_test("c1", f) /\ now' <= MaxClock
    \/ \E q \in QuestionIdInputs, a \in AnswerInputs : submit_answer("c1", q, a)
    \/ submit_test("c1") /\ now' <= MaxClock
    \/ reset_history("c1")

Spec == Init /\ [][Next]_vars

(***************************************************************************)
(* SpecHistory: one browser and one account taking quick tests one after   *)
(* the other, each submitted before the next is started.                   *)
(***************************************************************************)
InitHistory == Init /\ Len(questions_json) = 2

NextHistory ==
    \/ register("c1", "a@x.org", "secret1", "secret1")
    \/ login("c1", "a@x.org", "secret1")
    \/ logout("c1") /\ ~Has(session["c1"], "current_test")
    \/ /\ ~Has(session["c1"], "current_test")
       /\ start_test("c1", "quick")
       /\ now' <= MaxHistoryClock
    \/ submit_test("c1") /\ now' <= MaxHistoryClock

SpecHistory == InitHistory /\ [][NextHistory]_vars

(***************************************************************************)
(* SpecUsers: two browsers, each with an account of its own, their         *)
(* requests in any order.                                                  *)
(***************************************************************************)
InitUsers == Init /\ Len(questions_json) = 2

NextUsers ==
    \/ register("c1", "a@x.org", "secret1", "secret1")
    \/ register("c2", "b@x.org", "secret1", "secret1")
    \/ \E c \in Clients, f \in {"quick", "standard"} :
           start_test(c, f) /\ now' <= MaxUsersClock
    \/ \E c \in Clients : submit_answer(c, PyInt(1), PyStr("Option A"))
    \/ \E c \in Clients : submit_test(c) /\ now' <= MaxUsersClock
    \/ \E c \in Clients : reset_history(c)

SpecUsers == InitUsers /\ [][NextUsers]_vars

(***************************************************************************)
(* SpecSelect: questions files with several questions of a type, so that   *)
(* a selection can take the whole target of every type from the pool.      *)
(***************************************************************************)
SelectCatalog ==
    <<AllQuestions[1], AllQuestions[3], AllQuestions[2], AllQuestions[5],
      AllQuestions[4], AllQuestions[6], AllQuestions[7]>>

InitSelect ==
    /\ questions_json \in {SubSeq(SelectCatalog, 1, n) : n \in 3..Len(SelectCatalog)}
    /\ users = EmptyDict
    /\ user_progress = EmptyDict
    /\ session = [c \in Clients |-> EmptyDict]
    /\ now = 0
    /\ last = [op |-> "init", client |-> "", outcome |-> ""]
    /\ finalized = EmptyDict

NextSelect ==
    \/ register("c1", "a@x.org", "secret1", "secret1")
    \/ \E f \in DOMAIN test_params : start_test("c1", f) /\ now' <= MaxSelectClock
    \/ submit_test("c1") /\ now' <= MaxSelectClock
    \/ reset_history("c1")

SpecSelect == InitSelect /\ [][NextSelect]_vars

(***************************************************************************)
(* SpecBrowsers: one account logged in from two browsers, their requests   *)
(* in any order.                                                           *)
(***************************************************************************)
InitBrowsers == Init /\ Len(questions_json) = 2

NextBrowsers ==
    \/ register("c1", "a@x.org", "secret1", "secret1")
    \/ login("c2", "a@x.org", "secret1")
    \/ \E c \in Clients : start_test(c, "quick") /\ now' <= MaxBrowsersClock
    \/ \E c \in Clients : submit_test(c) /\ now' <= MaxBrowsersClock

SpecBrowsers == InitBrowsers /\ [][NextBrowsers]_vars

(***************************************************************************)
(* SpecScore: a questions file of one question, well-formed or not, and    *)
(* one quick test on it: any answer is stored, and the test is submitted.  *)
(***************************************************************************)
ABC == <<"Option A", "Option B", "Option C">>

\* the question of the file
ScoreQuestions ==
    {[type |-> "ma", options |-> ABC, correct |-> PyList(<<PyInt(0), PyInt(2)>>)],
     [type |-> "ma", options |-> ABC, correct |-> PyList(<<PyInt(1)>>)],
     [type |-> "ma", options |-> ABC, correct |-> PyList(<<>>)],
     [type |-> "ma", options |-> ABC, correct |-> PyList(<<PyInt(5)>>)],
     [type |-> "ma", options |-> ABC, correct |-> PyStr("A")],
     [type |-> "mc", options |-> ABC, correct |-> PyInt(0)],
     [type |-> "mc", options |-> ABC, correct |-> PyInt(7)],
     [type |-> "mc", options |-> ABC, correct |-> PyStr("A")],
     [type |-> "qc", correct |-> PyStr("B")],
     [type |-> "numeric", correct |-> PyStr("10.50")],
     [type |-> "numeric", correct |-> PyStr("10.5")],
     [type |-> "numeric", correct |-> PyStr("abc")],
     [type |-> "numeric", correct |-> PyNone]}

\* the answer of a submit_answer request
ScoreAnswers ==
    {PyNone, PyStr(""), PyStr("Option A"), PyStr("Quantity B is greater"),
     PyStr("10.5"), PyStr("10.51"), PyStr("10.49"), PyStr("10.6"), PyStr("abc"),
     PyInt(5)}
    \cup {PyList([k \in DOMAIN l |-> PyStr(l[k])]) :
             l \in {<<>>, <<"Option A">>, <<"Option B">>,
                    <<"Option A", "Option C">>, <<"Option C", "Option A">>,
                    <<"Option A", "Option C", "Option A">>,
                    <<"Option A", "Option B">>,
                    <<"Option A", "Option B", "Option C">>}}

InitScore ==
    /\ questions_json \in {<<q>> : q \in ScoreQuestions}
    /\ users = EmptyDict
    /\ user_progress = EmptyDict
    /\ session = [c \in Clients |-> EmptyDict]
    /\ now = 0
    /\ last = [op |-> "init", client |-> "", outcome |-> ""]
    /\ finalized = EmptyDict

NextScore ==
    \/ register("c1", "a@x.org", "secret1", "secret1")
    \/ start_test("c1", "quick") /\ now' <= MaxClock
    \/ \E a \in ScoreAnswers : submit_answer("c1", PyInt(1), a)
    \/ submit_test("c1") /\ now' <= MaxClock

SpecScore == InitScore /\ [][NextScore]_vars

(***************************************************************************)
(* SpecSaveFails: one browser and one account, with a database that can    *)
(* fail when submit_test saves.                                            *)
(***************************************************************************)
NextSaveFails ==
    \/ register("c1", "a@x.org", "secret1", "secret1")
    \/ \E f \in {"quick", "standard"} : start_test("c1", f) /\ now' <= MaxSaveClock
    \/ \E a \in AnswerInputs : submit_answer("c1", PyInt(1), a)
    \/ submit_test("c1") /\ now' <= MaxSaveClock
    \/ submit_test_save_fails("c1") /\ now' <= MaxSaveClock

SpecSaveFails == Init /\ [][NextSaveFails]_vars

(***************************************************************************)
(* SpecView: one browser and one account, with the test page.              *)
(***************************************************************************)
NextView ==
    \/ register("c1", "a@x.org", "secret1", "secret1")
    \/ \E f \in {"quick", "full"} : start_test("c1", f) /\ now' <= MaxClock
    \/ \E a \in AnswerInputs : submit_answer("c1", PyInt(1), a)
    \/ \E q \in ViewInputs : test("c1", q)
    \/ submit_test("c1") /\ now' <= MaxClock
    \/ reset_history("c1")

SpecView == Init /\ [][NextView]_vars

(***************************************************************************)
(* What the claims speak of.                                               *)
(***************************************************************************)
CatalogIds == {load_questions[i]["id"] : i \in DOMAIN load_questions}

UserIds == {users[e].id : e \in DOMAIN users}

\* what a helper called while serving client c reads and writes
World(c) == [session |-> session[c], user_progress |-> user_progress]

\* the attempted set of the user logged in at client c
AttemptedSet(c) == Range(get_attempted_questions(World(c)))

\* the attempted set the table progress holds for user u
AttemptedIn(progress, u) ==
    Range(get_attempted_questions(
              [session |-> [user_id |-> u], user_progress |-> progress]))

\* the attempted set the database holds for user u
AttemptedOf(u) == AttemptedIn(user_progress, u)

Active(c) == Has(session[c], "current_test")

QuestionIds(c) == session[c]["current_test"].question_ids

\* the history log the database holds for user u
HistoryOf(u) == load_user_progress(user_progress, u).history

FinalizedOf(u) == IF Has(finalized, u) THEN finalized[u] ELSE <<>>

\* the counts select_questions is tried with
Counts == 0..(FullQuestions + 1)

Distinct(seq) == \A i, j \in DOMAIN seq : i # j => seq[i] # seq[j]

Started == last.op = "start_test" /\ last.outcome \in {"ok", "exhausted"}

(***************************************************************************)
(* C1.  Selection correctness: whenever the catalog holds at least count   *)
(* questions and the user's attempted set is empty, select_questions(count)*)
(* returns, and every list it can return has exactly count entries, with   *)
(* pairwise distinct ids that all belong to the catalog.                   *)
(***************************************************************************)
SelectionCorrect ==
    LoggedIn("c1") =>
        \A count \in Counts :
            (Cardinality(CatalogIds) >= count /\ AttemptedSet("c1") = {}) =>
                /\ select_questions(World("c1"), count) # {}
                /\ \A sel \in select_questions(World("c1"), count) :
                       /\ Len(sel.ids) = count
                       /\ Distinct(sel.ids)
                       /\ Range(sel.ids) \subseteq CatalogIds

\* a full test was started by a user who had attempted nothing
SelectionCorrectWitness ==
    /\ last.op = "start_test" /\ last.outcome = "ok"
    /\ session["c1"]["current_test"].format = "full"
    /\ Len(QuestionIds("c1")) = FullQuestions
    /\ AttemptedSet("c1") = Range(QuestionIds("c1"))

(***************************************************************************)
(* C2.  Non-repetition: whenever at least count catalog questions are not  *)
(* in the user's attempted set, no id select_questions(count) can return   *)
(* is in the attempted set; in every state the requests can reach.         *)
(***************************************************************************)
NonRepetition ==
    LoggedIn("c1") =>
        \A count \in Counts :
            Cardinality(CatalogIds \ AttemptedSet("c1")) >= count =>
                \A sel \in select_questions(World("c1"), count) :
                    Range(sel.ids) \cap AttemptedSet("c1") = {}

\* a test was started without exhaustion by a user who had attempted other
\* questions before
NonRepetitionWitness ==
    /\ last.op = "start_test" /\ last.outcome = "ok"
    /\ QuestionIds("c1") # <<>>
    /\ AttemptedSet("c1") \ Range(QuestionIds("c1")) # {}

(***************************************************************************)
(* C3.  As claimed: no start_test, submit_answer or submit_test takes an   *)
(* id out of a user's attempted set.                                       *)
(***************************************************************************)
AttemptedMonotone ==
    [][last'.op \in {"start_test", "submit_answer", "submit_test"} =>
           \A u \in UserIds :
               AttemptedOf(u) \subseteq AttemptedIn(user_progress', u)]_vars

(***************************************************************************)
(* C3, amended.  No submit_answer, submit_test or start_test takes an id   *)
(* out of a user's attempted set, except a start_test whose selection      *)
(* finds fewer than count unattempted questions: that one resets the set,  *)
(* which afterwards holds exactly the ids of the new test.                 *)
(***************************************************************************)
AttemptedMonotoneButExhaustion ==
    [][last'.op \in {"start_test", "submit_answer", "submit_test"} =>
           IF last'.op = "start_test" /\ last'.outcome = "exhausted"
           THEN AttemptedIn(user_progress', session["c1"]["user_id"])
                    = Range(session'["c1"]["current_test"].question_ids)
           ELSE \A u \in UserIds :
                    AttemptedOf(u) \subseteq AttemptedIn(user_progress', u)]_vars

\* a quick test hit exhaustion on a catalog of several questions: all of
\* them were attempted before, and only the new test's are now
AttemptedResetWitness ==
    /\ last.op = "start_test" /\ last.outcome = "exhausted"
    /\ session["c1"]["current_test"].format = "quick"
    /\ Cardinality(CatalogIds) > QuickQuestions
    /\ AttemptedSet("c1") = Range(QuestionIds("c1"))
    /\ AttemptedSet("c1") # CatalogIds

(***************************************************************************)
(* C4.  As claimed: a start_test with an unknown format leaves the test    *)
(* session, the attempted set and the history log as they were.            *)
(***************************************************************************)
InvalidFormatChangesNothing ==
    [][(last'.op = "start_test" /\ last'.outcome = "invalid") =>
           /\ Active("c1")' = Active("c1")
           /\ Active("c1") => session'["c1"]["current_test"] = session["c1"]["current_test"]
           /\ user_progress' = user_progress
           /\ Has(session["c1"], "test_history") =>
                  /\ Has(session'["c1"], "test_history")
                  /\ session'["c1"]["test_history"] = session["c1"]["test_history"]]_vars

(***************************************************************************)
(* C5.  A submit_test in an active test never fails; its total is the      *)
(* number of question_ids, its correct count is the number of question_ids *)
(* whose stored answer (none when nothing is stored under the id) scores   *)
(* true, whatever is stored under other ids, and 0 <= correct <= total.    *)
(***************************************************************************)
TestScored ==
    [][(last'.op = "submit_test" /\ LoggedIn("c1") /\ Active("c1")) =>
           /\ last'.outcome = "ok"
           /\ LET ids == QuestionIds("c1")
                  answers == session["c1"]["current_test"].answers
                  answer(id) == IF ToString(id) \in DOMAIN answers
                                THEN answers[ToString(id)] ELSE PyNone
                  right == {k \in DOMAIN ids :
                               score_answer(question_lookup[ids[k]], answer(ids[k]))}
                  results == session'["c1"]["last_results"]
              IN  /\ results.total = Len(ids)
                  /\ results.correct = Cardinality(right)
                  /\ Len(results.details) = Len(ids)
                  /\ \A k \in DOMAIN ids :
                         /\ results.details[k].question["id"] = ids[k]
                         /\ results.details[k].correct = (k \in right)
                  /\ 0 <= results.correct /\ results.correct <= results.total]_vars

\* a full test with one right answer and unanswered questions was submitted
TestScoredWitness ==
    /\ last.op = "submit_test" /\ last.outcome = "ok"
    /\ session["c1"]["last_results"].total = FullQuestions
    /\ session["c1"]["last_results"].correct = 1

(***************************************************************************)
(* C6.  History bound: the history log, in the database and in the         *)
(* session, never holds more than 10 entries; after n finalized tests it   *)
(* holds exactly the last min(n, 10) entries finalized, in the order they  *)
(* were finalized.                                                         *)
(***************************************************************************)
IsLastOf(history, all) ==
    /\ Len(history) = Min(Len(all), 10)
    /\ \A i \in 1..Len(history) : history[i] = all[Len(all) - Len(history) + i]
    /\ \A i \in 1..(Len(history) - 1) : history[i].date < history[i + 1].date

HistoryBound ==
    /\ \A u \in UserIds : IsLastOf(HistoryOf(u), FinalizedOf(u))
    /\ LoggedIn("c1") =>
           IsLastOf(IF Has(session["c1"], "test_history")
                    THEN session["c1"]["test_history"] ELSE <<>>,
                    FinalizedOf(session["c1"]["user_id"]))

\* the eleventh test was finalized
HistoryBoundWitness ==
    /\ last.op = "submit_test" /\ last.outcome = "ok"
    /\ Len(FinalizedOf(1)) = 11
    /\ Len(HistoryOf(1)) = 10
    /\ Len(session["c1"]["test_history"]) = 10

(***************************************************************************)
(* C7.  submit_answer and submit_test without an active test report it and *)
(* change nothing: no test session appears, no history entry is appended,  *)
(* and the attempted set and the stored results stay as they are.          *)
(***************************************************************************)
NoActiveTestChangesNothing ==
    [][(last'.op \in {"submit_answer", "submit_test"}
        /\ LoggedIn("c1") /\ ~Active("c1")) =>
           /\ last'.outcome = "no_test"
           /\ session' = session
           /\ user_progress' = user_progress
           /\ finalized' = finalized]_vars

\* a second submit_test after a test was finalized
NoActiveTestWitness ==
    /\ last.op = "submit_test" /\ last.outcome = "no_test"
    /\ Has(session["c1"], "last_results")
    /\ Len(HistoryOf(1)) = 1

(***************************************************************************)
(* C8.  Right after every successful start_test, every id of the new       *)
(* test's question_ids is in the user's attempted set, and no answer is    *)
(* stored yet; also when the selection hit exhaustion.                     *)
(***************************************************************************)
SelectionMarksAttempted ==
    Started =>
        /\ Active("c1")
        /\ Range(QuestionIds("c1")) \subseteq AttemptedSet("c1")
        /\ session["c1"]["current_test"].answers = EmptyDict

\* a test of several questions was started through the exhaustion branch
SelectionMarksAttemptedWitness ==
    /\ last.op = "start_test" /\ last.outcome = "exhausted"
    /\ Len(QuestionIds("c1")) >= 2

(***************************************************************************)
(* C9.  As claimed: after a submit_test that finalizes a test, the user's  *)
(* attempted set is the set before the call united with question_ids.      *)
(***************************************************************************)
FinalizeUnitesAttempted ==
    [][(last'.op = "submit_test" /\ last'.outcome = "ok") =>
           AttemptedIn(user_progress', session["c1"]["user_id"])
               = AttemptedSet("c1") \cup Range(QuestionIds("c1"))]_vars

(***************************************************************************)
(* C10.  Exhaustion and small catalogs: whenever fewer than count catalog  *)
(* questions are unattempted, select_questions(count) returns, what it can *)
(* return is what it can return for a user who attempted nothing, every    *)
(* list has min(count, catalog size) pairwise distinct catalog ids, and    *)
(* the whole catalog when count exceeds the catalog size.                  *)
(***************************************************************************)
ExhaustionFallback ==
    LoggedIn("c1") =>
        \A count \in Counts :
            Cardinality(CatalogIds \ AttemptedSet("c1")) < count =>
                LET got == {sel.ids : sel \in select_questions(World("c1"), count)}
                    fresh == {sel.ids : sel \in select_questions(
                                 set_attempted_questions_bitmap(World("c1"), <<>>), count)}
                IN  /\ got # {}
                    /\ got = fresh
                    /\ \A sel \in select_questions(World("c1"), count) : sel.exhausted
                    /\ \A ids \in got :
                           /\ Len(ids) = Min(count, Cardinality(CatalogIds))
                           /\ Distinct(ids)
                           /\ Range(ids) \subseteq CatalogIds
                           /\ count > Cardinality(CatalogIds) => Range(ids) = CatalogIds

\* a test was started that asks for more questions than the catalog has
ExhaustionFallbackWitness ==
    /\ last.op = "start_test" /\ last.outcome = "exhausted"
    /\ QuestionIds("c1") # <<>>
    /\ Len(QuestionIds("c1")) < test_params[session["c1"]["current_test"].format].questions
    /\ Range(QuestionIds("c1")) = CatalogIds

(***************************************************************************)
(* C11.  As claimed: a start_test whose selection finds fewer than count   *)
(* unattempted questions hands back something that tells repeats occurred: *)
(* its redirect, its flashed messages or the fields of the test it stored  *)
(* differ from those of a start_test made without exhaustion.              *)
(***************************************************************************)
StartTestResult(c) ==
    [redirect |-> start_test_redirect(last.outcome),
     flashes |-> start_test_flashes(last.outcome),
     test_fields |-> IF Active(c) THEN DOMAIN session[c]["current_test"] ELSE {}]

ExhaustionSignalled ==
    [][(/\ last.op = "start_test" /\ last.outcome = "ok"
        /\ last'.op = "start_test" /\ last'.outcome = "exhausted") =>
           StartTestResult("c1")' # StartTestResult("c1")]_vars

(***************************************************************************)
(* C12.  A test is finalized at most once: a submit_test on an active test *)
(* leaves no active test and appends exactly one history entry, a          *)
(* submit_test without an active test appends none, and the entries ever   *)
(* appended are never more than the tests started.  (datetime.now() is     *)
(* read once by every start_test that selects and once by every            *)
(* submit_test that finalizes, so the tests started are now minus the      *)
(* entries appended.)                                                      *)
(***************************************************************************)
SessionHistory(s) == IF Has(s, "test_history") THEN s["test_history"] ELSE <<>>

FinalizedOnce ==
    [][(last'.op = "submit_test" /\ LoggedIn("c1")) =>
           LET u == session["c1"]["user_id"]
               before == FinalizedOf(u)
               after == IF Has(finalized', u) THEN finalized'[u] ELSE <<>>
               old == SessionHistory(session["c1"])
               new == SessionHistory(session'["c1"])
           IN  /\ IF Active("c1")
                  THEN /\ ~Has(session'["c1"], "current_test")
                       /\ Len(after) = Len(before) + 1
                       /\ SubSeq(after, 1, Len(before)) = before
                       /\ Len(new) = Min(Len(old) + 1, 10)
                       /\ new[Len(new)] = after[Len(after)]
                       /\ \A i \in 1..(Len(new) - 1) :
                              new[i] = old[Len(old) - (Len(new) - 1) + i]
                  ELSE /\ after = before
                       /\ new = old
                       /\ user_progress' = user_progress
               /\ Len(after) <= now' - Len(after)]_vars

\* a submit_test repeated after the second test was finalized
FinalizedOnceWitness ==
    /\ last.op = "submit_test" /\ last.outcome = "no_test"
    /\ ~Active("c1")
    /\ Len(FinalizedOf(1)) = 2
    /\ now = 4

(***************************************************************************)
(* C13.  Per-user isolation: a start_test, submit_answer, submit_test or   *)
(* reset_history of one user changes nothing of another user: not the      *)
(* session of the other user's browser (with its test), not the other      *)
(* user's attempted set, not the other user's history log; in every        *)
(* interleaving of the two users' requests.                                *)
(***************************************************************************)
HistoryIn(progress, u) == load_user_progress(progress, u).history

UserIsolation ==
    [][(/\ last'.op \in {"start_test", "submit_answer", "submit_test", "reset_history"}
        /\ last'.client \in Clients) =>
           LET c == last'.client
           IN  /\ \A d \in Clients \ {c} : session'[d] = session[d]
               /\ \A v \in UserIds :
                      (~LoggedIn(c) \/ v # session[c]["user_id"]) =>
                          /\ AttemptedIn(user_progress', v) = AttemptedOf(v)
                          /\ HistoryIn(user_progress', v) = HistoryOf(v)
                          /\ (v \in DOMAIN user_progress') = (v \in DOMAIN user_progress)]_vars

\* one user resets after the other finalized a test: the other still has
\* the history entry and the attempted questions
UserIsolationWitness ==
    /\ last.op = "reset_history" /\ last.client = "c2" /\ last.outcome = "ok"
    /\ LoggedIn("c1") /\ LoggedIn("c2")
    /\ session["c1"]["user_id"] # session["c2"]["user_id"]
    /\ Len(HistoryOf(session["c1"]["user_id"])) = 1
    /\ AttemptedSet("c1") # {}
    /\ AttemptedSet("c2") = {}
    /\ Active("c2")

(***************************************************************************)
(* What submit_test is about to score in SpecScore: the one question of    *)
(* the test and the answer stored for it.                                  *)
(***************************************************************************)
Scoring == LoggedIn("c1") /\ Active("c1") /\ QuestionIds("c1") = <<1>>

ScoredQuestion == load_questions[1]

ScoredAnswer == GetAnswer(session["c1"]["current_test"].answers, 1)

\* correct is a list of indices into options
WellFormedMa(q) ==
    /\ q["type"] = "ma"
    /\ Has(q, "options")
    /\ q["correct"].t = "list"
    /\ \A k \in DOMAIN q["correct"].v :
           /\ q["correct"].v[k].t = "int"
           /\ q["correct"].v[k].v \in 0..(Len(q["options"]) - 1)

(***************************************************************************)
(* C14.  Multiple-answer scoring compares sets: a multiple-answer question *)
(* scores true exactly when the answer is a list and the set of its        *)
(* strings is the set of options[i] for i in correct; so any order and     *)
(* repeated entries score the same, a strict subset or a wrong option      *)
(* scores false, and an answer that is no list scores false.               *)
(***************************************************************************)
MultipleAnswerSets ==
    [][(last'.op = "submit_test" /\ Scoring /\ WellFormedMa(ScoredQuestion)) =>
           LET q == ScoredQuestion
               a == ScoredAnswer
               wanted == {q["options"][q["correct"].v[k].v + 1] :
                             k \in DOMAIN q["correct"].v}
           IN  /\ last'.outcome = "ok"
               /\ session'["c1"]["last_results"].details[1].correct =
                      (/\ a.t = "list"
                       /\ {a.v[k].v : k \in DOMAIN a.v} = wanted)]_vars

\* the answer with the right options in the other order and one repeated
\* scored true
MultipleAnswerSetsWitness ==
    /\ last.op = "submit_test" /\ last.outcome = "ok"
    /\ load_questions[1]["type"] = "ma"
    /\ session["c1"]["last_results"].details[1].correct
    /\ session["c1"]["last_results"].details[1].user_answer.t = "list"
    /\ Len(session["c1"]["last_results"].details[1].user_answer.v) = 3

(***************************************************************************)
(* C15.  As claimed: a numeric answer scores true exactly when the answer  *)
(* and the key both parse as numbers and the two numbers differ by         *)
(* strictly less than 0.01; so with the key "10.50" the answer "10.5"      *)
(* scores true and "10.51", which differs by exactly 0.01, scores false;   *)
(* an answer that does not parse scores false and nothing is raised.  The  *)
(* numbers are the decimal values of the texts, in hundredths.             *)
(***************************************************************************)
Hundredths(x) == float(x).val.h

NumericTolerance ==
    [][(last'.op = "submit_test" /\ Scoring /\ ScoredQuestion["type"] = "numeric"
        /\ ScoredAnswer.t = "str" /\ ScoredAnswer.v # "") =>
           LET user == ScoredAnswer
               key == ScoredQuestion["correct"]
           IN  /\ last'.outcome = "ok"
               /\ session'["c1"]["last_results"].details[1].correct =
                      (/\ float(user).some
                       /\ float(key).some
                       /\ Hundredths(user) - Hundredths(key) < 1
                       /\ Hundredths(key) - Hundredths(user) < 1)]_vars

(***************************************************************************)
(* C16.  As claimed: an absent or empty answer always scores false:        *)
(* whatever the type of the question and whatever its correct, no answer   *)
(* (None), the empty string and, for a multiple-answer question, the empty *)
(* list score false.                                                       *)
(***************************************************************************)
EmptyAnswer(q, a) ==
    \/ a.t = "null"
    \/ a.t = "str" /\ a.v = ""
    \/ q["type"] = "ma" /\ a.t = "list" /\ a.v = <<>>

EmptyAnswerScoresFalse ==
    [][(/\ last'.op = "submit_test" /\ last'.outcome = "ok" /\ Scoring
        /\ EmptyAnswer(ScoredQuestion, ScoredAnswer)) =>
           ~session'["c1"]["last_results"].details[1].correct]_vars

(***************************************************************************)
(* C17.  As claimed: fail closed.  Whatever the answer key of the question *)
(* (an index out of range, a correct of the wrong type, a numeric key that *)
(* does not parse), submit_test on the active test completes: it appends   *)
(* its history entry and removes the test, and a question whose key is     *)
(* malformed is scored false.                                              *)
(***************************************************************************)
MalformedKey(q) ==
    LET correct == q["correct"]
    IN  \/ q["type"] = "mc"
           /\ ~(correct.t = "int" /\ Has(q, "options")
                /\ correct.v \in 0..(Len(q["options"]) - 1))
        \/ q["type"] = "ma" /\ ~WellFormedMa(q)
        \/ q["type"] = "numeric" /\ ~float(correct).some

FailClosed ==
    [][(last'.op = "submit_test" /\ Scoring) =>
           /\ last'.outcome = "ok"
           /\ ~Has(session'["c1"], "current_test")
           /\ Len(SessionHistory(session'["c1"])) = Len(SessionHistory(session["c1"])) + 1
           /\ (MalformedKey(ScoredQuestion) /\ ~EmptyAnswer(ScoredQuestion, ScoredAnswer)) =>
                  ~session'["c1"]["last_results"].details[1].correct]_vars

(***************************************************************************)
(* C18.  Accuracy with zero questions: submit_test on a test without       *)
(* questions completes, its results are accuracy 0, correct 0 and total 0, *)
(* and the history entry it appends carries those values.                  *)
(***************************************************************************)
EmptyTestAccuracy ==
    [][(last'.op = "submit_test" /\ LoggedIn("c1") /\ Active("c1")
        /\ QuestionIds("c1") = <<>>) =>
           LET results == session'["c1"]["last_results"]
               history == SessionHistory(session'["c1"])
               stored == HistoryIn(user_progress', session["c1"]["user_id"])
           IN  /\ last'.outcome = "ok"
               /\ results.accuracy = 0 /\ results.correct = 0 /\ results.total = 0
               /\ results.details = <<>>
               /\ Len(history) = Len(SessionHistory(session["c1"])) + 1
               /\ history[Len(history)].accuracy = 0
               /\ history[Len(history)].correct = 0
               /\ history[Len(history)].total = 0
               /\ stored = history]_vars

\* a test started on an empty questions file was submitted
EmptyTestAccuracyWitness ==
    /\ last.op = "submit_test" /\ last.outcome = "ok"
    /\ questions_json = <<>>
    /\ session["c1"]["last_results"].total = 0
    /\ Len(HistoryOf(1)) = 1
    /\ HistoryOf(1)[1].accuracy = 0

(***************************************************************************)
(* C19.  As claimed: after a reset_history the user's test history is      *)
(* empty: the profile of a user who finalized a test and then reset shows  *)
(* no test taken.                                                          *)
(***************************************************************************)
ResetEmptiesHistory ==
    (last.op = "reset_history" /\ last.outcome = "ok") =>
        /\ profile("c1").total_tests = 0
        /\ profile("c1").test_history = <<>>

(***************************************************************************)
(* C20.  As claimed: when saving progress fails during submit_test, the    *)
(* results of that submission (accuracy, correct, total, details) are      *)
(* stored as the last results all the same, and the session is not left    *)
(* half-finalized: with the history entry appended and the test still      *)
(* active.                                                                 *)
(***************************************************************************)
SaveFailureKeepsResults ==
    [][(last'.op = "submit_test" /\ last'.outcome = "save_error") =>
           LET test_data == session["c1"]["current_test"]
               details == results_detail(test_data.question_ids, test_data.answers)
               correct == CountCorrect(details)
               total == Len(test_data.question_ids)
           IN  /\ Has(session'["c1"], "last_results")
               /\ session'["c1"]["last_results"] =
                      [accuracy |-> Accuracy(correct, total), correct |-> correct,
                       total |-> total, details |-> details]
               /\ ~(/\ Has(session'["c1"], "current_test")
                    /\ Len(SessionHistory(session'["c1"]))
                           > Len(SessionHistory(session["c1"])))]_vars

(***************************************************************************)
(* C21.  One test per browser session, replaced on start: a start_test     *)
(* that selects, made while a test is active, discards that test: the      *)
(* test it leaves has no answers, a start time later than that of the      *)
(* discarded test and question ids of its own selection, all marked        *)
(* attempted; nothing is scored or appended for the discarded test, and a  *)
(* submit_test of a test without answers counts nothing as correct, so no  *)
(* answer of the discarded test is scored.                                 *)
(***************************************************************************)
TestReplacedOnStart ==
    [][/\ (last'.op = "start_test" /\ last'.outcome \in {"ok", "exhausted"}) =>
              LET c == last'.client
                  new == session'[c]["current_test"]
              IN  /\ new.answers = EmptyDict
                  /\ new.start_time = now'
                  /\ Active(c) => new.start_time > session[c]["current_test"].start_time
                  /\ Len(new.question_ids) =
                         Min(test_params[new.format].questions, Len(questions_json))
                  /\ Range(new.question_ids)
                         \subseteq AttemptedIn(user_progress', session[c]["user_id"])
                  /\ SessionHistory(session'[c]) = SessionHistory(session[c])
                  /\ Has(session'[c], "last_results") = Has(session[c], "last_results")
                  /\ Has(session[c], "last_results") =>
                         session'[c]["last_results"] = session[c]["last_results"]
                  /\ finalized' = finalized
       /\ (/\ last'.op = "submit_test" /\ last'.outcome = "ok"
           /\ session[last'.client]["current_test"].answers = EmptyDict) =>
              LET results == session'[last'.client]["last_results"]
              IN  /\ results.correct = 0
                  /\ \A k \in DOMAIN results.details :
                         results.details[k].user_answer = PyNone]_vars

\* a second test, started over the first after exhaustion and on its
\* question, was submitted and scored nothing
TestReplacedOnStartWitness ==
    /\ last.op = "submit_test" /\ last.outcome = "ok" /\ last.client = "c1"
    /\ now = 3
    /\ Len(FinalizedOf(1)) = 1
    /\ session["c1"]["last_results"].correct = 0
    /\ session["c1"]["last_results"].details[1].question["id"] = 1
    /\ AttemptedSet("c1") = {1}

(***************************************************************************)
(* C22.  question_ids is fixed for the life of a test: a start_test on a   *)
(* questions file that has enough questions stores as many ids as the      *)
(* format asks for, and no submit_answer, view of the test page or         *)
(* reset_history made while the test is active ends the test or changes    *)
(* the contents or the order of its question_ids.                          *)
(***************************************************************************)
QuestionIdsFixed ==
    [][/\ (/\ last'.op = "start_test" /\ last'.outcome \in {"ok", "exhausted"}
           /\ Len(questions_json)
                  >= test_params[session'["c1"]["current_test"].format].questions) =>
              Len(session'["c1"]["current_test"].question_ids)
                  = test_params[session'["c1"]["current_test"].format].questions
       /\ (/\ last'.op \in {"submit_answer", "test", "reset_history"}
           /\ LoggedIn("c1") /\ Active("c1")) =>
              /\ Has(session'["c1"], "current_test")
              /\ session'["c1"]["current_test"].question_ids = QuestionIds("c1")
              /\ session'["c1"]["current_test"].format
                     = session["c1"]["current_test"].format]_vars

\* the last question of a full test is on view, with an answer stored
QuestionIdsFixedWitness ==
    /\ last.op = "test" /\ last.outcome = "ok"
    /\ Len(QuestionIds("c1")) = FullQuestions
    /\ session["c1"]["current_question_idx"] = FullQuestions - 1
    /\ session["c1"]["current_test"].answers # EmptyDict

(***************************************************************************)
(* C23.  submit_answer is an upsert with no other effect: in an active     *)
(* test a submit_answer with a question id int() accepts stores the answer *)
(* under that id, whatever answer the request carries and in place of an   *)
(* earlier answer for it, and leaves alone                                 *)
(* the answers of all other ids, question_ids, start_time, format, the     *)
(* rest of the session, the attempted set and the history log; the test    *)
(* stays active.                                                           *)
(***************************************************************************)
AnswerUpserted ==
    [][(last'.op = "submit_answer" /\ last'.outcome = "ok") =>
           LET old == session["c1"]["current_test"]
               new == session'["c1"]["current_test"]
               changed == {k \in DOMAIN new.answers :
                              k \notin DOMAIN old.answers \/ new.answers[k] # old.answers[k]}
           IN  /\ Active("c1") /\ Has(session'["c1"], "current_test")
               /\ Cardinality(changed) <= 1
               /\ DOMAIN old.answers \subseteq DOMAIN new.answers
               /\ Cardinality(DOMAIN new.answers) <= Cardinality(DOMAIN old.answers) + 1
               /\ \E q \in QuestionIdInputs, a \in AnswerInputs :
                      /\ int(q).some
                      /\ new = StoreAnswer(old, ToString(int(q).val), a)
               /\ \A q \in QuestionIdInputs, a \in AnswerInputs :
                      int(q).some =>
                          LET id == ToString(int(q).val)
                              stored == StoreAnswer(old, id, a).answers
                          IN  /\ DOMAIN stored = DOMAIN old.answers \cup {id}
                              /\ stored[id] = a
                              /\ \A k \in DOMAIN old.answers :
                                     k # id => stored[k] = old.answers[k]
               /\ new.question_ids = old.question_ids
               /\ new.start_time = old.start_time
               /\ new.format = old.format
               /\ new.time_limit = old.time_limit
               /\ Pop(session'["c1"], "current_test") = Pop(session["c1"], "current_test")
               /\ user_progress' = user_progress
               /\ finalized' = finalized]_vars

\* the answer of the first question was replaced by another
AnswerUpsertedWitness ==
    /\ last.op = "submit_answer" /\ last.outcome = "ok"
    /\ Active("c1")
    /\ DOMAIN session["c1"]["current_test"].answers = {"1", ToString(Len(questions_json) + 1)}
    /\ session["c1"]["current_test"].answers["1"] = PyStr("Quantity B is greater")
    /\ session["c1"]["current_test"].answers[ToString(Len(questions_json) + 1)]
           = PyStr("Option A")


(***************************************************************************)
(* C24.  submit_answer only records answers for the test's own questions:  *)
(* in every state with an active test every key of answers is the id of    *)
(* one of the test's question_ids.                                         *)
(***************************************************************************)
AnswersWithinTest ==
    \A c \in Clients :
        Active(c) =>
            \A k \in DOMAIN session[c]["current_test"].answers :
                \E id \in Range(session[c]["current_test"].question_ids) :
                    k = ToString(id)


(***************************************************************************)
(* C25.  Distribution-balanced sampling: the target of a type is the       *)
(* floor of weight * count, with weights qc 0.40, mc 0.30, ma 0.15 and     *)
(* numeric 0.15, and mc also takes the whole shortfall to count, so the    *)
(* targets sum to count (count 12: qc 4, mc 6, ma 1, numeric 1); and when  *)
(* the pool a test is selected from holds at least the target number of    *)
(* questions of each type, the test holds exactly the target number of     *)
(* each type.                                                              *)
(***************************************************************************)
QuestionTypes == {"qc", "mc", "ma", "numeric"}

\* the questions a selection of count questions for user u draws from
EligiblePool(u, count) ==
    LET unattempted == CatalogIds \ AttemptedOf(u)
    IN  IF Cardinality(unattempted) >= count THEN unattempted ELSE CatalogIds

TypeCount(ids, q_type) ==
    Cardinality({id \in ids : load_questions[id]["type"] = q_type})

DistributionBalanced ==
    [][(last'.op = "start_test" /\ last'.outcome \in {"ok", "exhausted"}) =>
           LET count == test_params[session'["c1"]["current_test"].format].questions
               targets == target_types(count)
               pool == EligiblePool(session["c1"]["user_id"], count)
               selected == Range(session'["c1"]["current_test"].question_ids)
           IN  /\ target_types(12) = [qc |-> 4, mc |-> 6, ma |-> 1, numeric |-> 1]
               /\ \A n \in 0..27 :
                      /\ target_types(n)["qc"] = (40 * n) \div 100
                      /\ target_types(n)["ma"] = (15 * n) \div 100
                      /\ target_types(n)["numeric"] = (15 * n) \div 100
                      /\ target_types(n)["mc"] >= (30 * n) \div 100
                      /\ target_types(n)["qc"] + target_types(n)["mc"]
                             + target_types(n)["ma"] + target_types(n)["numeric"] = n
               /\ (\A t \in QuestionTypes : TypeCount(pool, t) >= targets[t]) =>
                      \A t \in QuestionTypes : TypeCount(selected, t) = targets[t]]_vars

\* a full test took its one qc and its mc questions from a pool that also
\* held an ma and a numeric question
DistributionBalancedWitness ==
    /\ last.op = "start_test" /\ last.outcome = "ok"
    /\ session["c1"]["current_test"].format = "full"
    /\ Len(questions_json) = Len(SelectCatalog)
    /\ AttemptedSet("c1") = Range(QuestionIds("c1"))
    /\ TypeCount(Range(QuestionIds("c1")), "qc") = target_types(FullQuestions)["qc"]
    /\ TypeCount(Range(QuestionIds("c1")), "qc") > 0
    /\ TypeCount(Range(QuestionIds("c1")), "mc") = target_types(FullQuestions)["mc"]


(***************************************************************************)
(* C26.  reset_history clears the attempted set and nothing else of the    *)
(* selection state: after it every question of the catalog reads as not    *)
(* attempted for the user, the history log is as before, and a test in     *)
(* progress is still there, with its question_ids and answers, for         *)
(* submit_test to finalize.                                                *)
(***************************************************************************)
ResetClearsAttemptedOnly ==
    [][(last'.op = "reset_history" /\ last'.outcome = "ok") =>
           LET c == last'.client
               u == session[c]["user_id"]
           IN  /\ AttemptedIn(user_progress', u) = {}
               /\ \A q \in CatalogIds :
                      ~is_question_attempted_bitmap(
                           [session |-> session'[c], user_progress |-> user_progress'], q)
               /\ HistoryIn(user_progress', u) = HistoryOf(u)
               /\ \A v \in UserIds \ {u} :
                      /\ AttemptedIn(user_progress', v) = AttemptedOf(v)
                      /\ HistoryIn(user_progress', v) = HistoryOf(v)
               /\ session' = session
               /\ Active(c) =>
                      /\ Has(session'[c], "current_test")
                      /\ session'[c]["current_test"].question_ids = QuestionIds(c)
                      /\ session'[c]["current_test"].answers
                             = session[c]["current_test"].answers
               /\ finalized' = finalized /\ now' = now]_vars

\* the attempted set was reset while a test with questions and an answer
\* was in progress
ResetClearsAttemptedOnlyWitness ==
    /\ last.op = "reset_history" /\ last.outcome = "ok"
    /\ Active("c1")
    /\ QuestionIds("c1") # <<>>
    /\ session["c1"]["current_test"].answers # EmptyDict
    /\ AttemptedSet("c1") = {}


(***************************************************************************)
(* C27.  The two columns of a progress row are written independently:      *)
(* the submit_test that saves the history leaves the saved attempted set   *)
(* as it was; start_test and reset_history, which write the attempted      *)
(* set, leave the saved history as it was; and marking question q makes q  *)
(* attempted and changes the membership of no other question.              *)
(***************************************************************************)
ProgressColumnsIndependent ==
    [][(/\ last'.op \in {"start_test", "submit_test", "reset_history"}
        /\ last'.outcome \in {"ok", "exhausted"}) =>
           LET c == last'.client
               u == session[c]["user_id"]
           IN  /\ last'.op = "submit_test" =>
                      /\ AttemptedIn(user_progress', u) = AttemptedOf(u)
                      /\ Has(user_progress, u) =>
                             user_progress'[u].bitmap = user_progress[u].bitmap
                      /\ HistoryIn(user_progress', u)
                             = IF Has(session'[c], "test_history")
                               THEN session'[c]["test_history"] ELSE <<>>
               /\ last'.op \in {"start_test", "reset_history"} =>
                      /\ HistoryIn(user_progress', u) = HistoryOf(u)
                      /\ Has(user_progress, u) =>
                             user_progress'[u].history = user_progress[u].history
               /\ \A q \in CatalogIds :
                      LET marked == mark_question_attempted(World(c), q)
                      IN  /\ Range(get_attempted_questions(marked))
                                 = AttemptedSet(c) \cup {q}
                          /\ HistoryIn(marked.user_progress, u) = HistoryOf(u)]_vars

\* a second test was started, and its question marked, for a user with a
\* finalized test in the history and an attempted question
ProgressColumnsIndependentWitness ==
    /\ last.op = "start_test" /\ last.outcome = "ok"
    /\ LoggedIn("c1")
    /\ Len(HistoryOf(session["c1"]["user_id"])) = 1
    /\ Cardinality(AttemptedSet("c1")) >= 2


(***************************************************************************)
(* C28.  No lost history across the browsers of one user: the saved        *)
(* history of a user holds every entry the user's submit_tests have        *)
(* produced so far, from whichever browser, but for those older than the   *)
(* ten most recent.                                                        *)
(***************************************************************************)
NoLostHistory ==
    \A u \in UserIds :
        \A i \in 1..Len(FinalizedOf(u)) :
            i > Len(FinalizedOf(u)) - 10 =>
                \E j \in 1..Len(HistoryOf(u)) : HistoryOf(u)[j] = FinalizedOf(u)[i]

====
